---- MODULE Spec2Model ----
(***************************************************************************)
(* rt-tester: a cyclic real-time latency tester (rt-tester.cpp).           *)
(*                                                                         *)
(* The controlling thread (main) parses the flags, locks memory, builds    *)
(* the thread attributes, creates the worker and joins it.  The worker     *)
(* (simple_cyclic_task) runs do_rt_task / wait_rest_of_period for ever.    *)
(*                                                                         *)
(* Time is counted in ticks of TickNs nanoseconds; every nanosecond value  *)
(* of the program (period_ns, tv_nsec, delay_ns, ...) is held in ticks.    *)
(***************************************************************************)
EXTENDS Integers, Sequences, FiniteSets

(* ---------------------------- program constants ------------------------ *)
NSEC_PER_SEC == 1000000000
NSEC_PER_MSEC == 1000000
DefaultPeriodNs == 1000000
DefaultPrintPerSec == 5
MlockExitCode == 0 - 2
EXIT_FAILURE == 1

(* ------------------------------- bounds -------------------------------- *)
\* ticks per millisecond: the resolution of the model's clock
TicksPerMs == 1
\* number of options on the command line, at most
MaxOpts == 2
\* number of wait_rest_of_period calls explored
MaxCycles == 4

TickNs == NSEC_PER_MSEC \div TicksPerMs
\* 1000000000 ns, in ticks (the constant of diff_nanosec and inc_period)
OneSecond == NSEC_PER_SEC \div TickNs

(* ------------------------- inputs of the model ------------------------- *)
\* arguments of -p, in milliseconds (atof), and of -r, in Hz (atol)
PeriodArgs == {0, 300, 2500}
RateArgs == {0 - 1, 0, 1}
\* monotonic clock when the process starts, in ticks
StartTimes == {0, 2 * OneSecond - 1}
\* error numbers a failing pthread call returns (EPERM, EAGAIN, ENOMEM, EINVAL)
ErrCodes == {1, 11, 12, 22}
\* the error numbers pthread_join can return (EDEADLK)
JoinErrCodes == {35}
\* what an integer division by zero leaves in the result on a machine where it
\* does not trap (AArch64 sdiv); where it traps (x86 idiv) the process gets SIGFPE
UBInts == {0}

(* ------------------------------ C arithmetic --------------------------- *)
Abs(x) == IF x < 0 THEN 0 - x ELSE x
Max(a, b) == IF a >= b THEN a ELSE b

\* C integer division truncates toward zero; % takes the sign of the dividend
CDiv(a, b) == IF (a >= 0) = (b > 0) THEN Abs(a) \div Abs(b) ELSE 0 - (Abs(a) \div Abs(b))
CMod(a, b) == a - b * CDiv(a, b)

\* the results an integer division can produce: b = 0 is undefined behaviour
Quotients(a, b) == IF b = 0 THEN UBInts ELSE {CDiv(a, b)}

\* the status the parent sees for exit(code) / return code from main
ExitStatus(code) == code % 256

(* ------------------------------- timespec ------------------------------ *)
clock_gettime(t) == [tv_sec |-> t \div OneSecond, tv_nsec |-> t % OneSecond]

\* the instant a timespec denotes, in ticks
TotalNs(ts) == ts.tv_sec * OneSecond + ts.tv_nsec

\* the seconds not scaled to nanoseconds
diff_nanosec_unscaled(time1, time0) ==
    (time1.tv_sec - time0.tv_sec) + (time1.tv_nsec - time0.tv_nsec)

diff_nanosec(time1, time0) ==
    OneSecond * (time1.tv_sec - time0.tv_sec) + (time1.tv_nsec - time0.tv_nsec)

\* a single conditional in place of the loop
nsec_overflow_once(ts) ==
    IF ts.tv_nsec >= OneSecond
    THEN [tv_sec |-> ts.tv_sec + 1, tv_nsec |-> ts.tv_nsec - OneSecond]
    ELSE ts

RECURSIVE nsec_overflow(_)
nsec_overflow(ts) ==
    IF ts.tv_nsec >= OneSecond
    THEN nsec_overflow([tv_sec |-> ts.tv_sec + 1, tv_nsec |-> ts.tv_nsec - OneSecond])
    ELSE ts

\* the nanoseconds wrap but the second is not carried
inc_period_nocarry(pi) ==
    [pi EXCEPT !.next_period.tv_nsec = (@ + pi.period_ns) % OneSecond]

inc_period(pi) ==
    [pi EXCEPT !.next_period =
        nsec_overflow([tv_sec |-> pi.next_period.tv_sec,
                       tv_nsec |-> pi.next_period.tv_nsec + pi.period_ns])]

\* a rate of 0 taken as "report every cycle"
periodic_task_init_always(period_ns, print_per_sec, q, t) ==
    [period_ns |-> period_ns,
     print_rate |-> IF print_per_sec = 0 THEN 1 ELSE q,
     next_period |-> clock_gettime(t)]

\* period_ns and print_per_sec stored the wrong way round
periodic_task_init_swapped(period_ns, print_per_sec, q, t) ==
    [period_ns |-> print_per_sec,
     print_rate |-> IF print_per_sec = 0 THEN 0 ELSE q,
     next_period |-> clock_gettime(t)]

\* the first deadline set one period after the time read
periodic_task_init_ahead(period_ns, print_per_sec, q, t) ==
    [period_ns |-> period_ns,
     print_rate |-> IF print_per_sec = 0 THEN 0 ELSE q,
     next_period |-> clock_gettime(t + period_ns)]

\* q is the value of 1000000000 / (period_ns * print_per_sec)
periodic_task_init(period_ns, print_per_sec, q, t) ==
    [period_ns |-> period_ns,
     print_rate |-> IF print_per_sec = 0 THEN 0 ELSE q,
     next_period |-> clock_gettime(t)]


\* atof(optarg) * 1000000, in ticks
MsToNs(ms) == ms * (NSEC_PER_MSEC \div TickNs)

\* >= in place of > in the test of the deadline
do_rt_task_ge(pi, tstart, tend, q) ==
    LET start == clock_gettime(tstart)
        end == clock_gettime(tend)
        delay_ns == diff_nanosec(start, pi.next_period)
    IN  [delay_ns |-> delay_ns,
         task_ns |-> diff_nanosec(end, start),
         period_exceeded |-> delay_ns >= pi.period_ns,
         print_info |-> pi.print_rate # 0 /\ CMod(q, pi.print_rate) = 0]

\* the rate condition never true for the first period of a second
do_rt_task_skip0(pi, tstart, tend, q) ==
    LET start == clock_gettime(tstart)
        end == clock_gettime(tend)
        delay_ns == diff_nanosec(start, pi.next_period)
    IN  [delay_ns |-> delay_ns,
         task_ns |-> diff_nanosec(end, start),
         period_exceeded |-> delay_ns > pi.period_ns,
         print_info |-> pi.print_rate # 0 /\ q # 0 /\ CMod(q, pi.print_rate) = 0]

\* q is the value of next_period.tv_nsec / period_ns (evaluated only when
\* print_rate != 0); tstart and tend are the two clock readings
do_rt_task(pi, tstart, tend, q) ==
    LET start == clock_gettime(tstart)
        end == clock_gettime(tend)
        delay_ns == diff_nanosec(start, pi.next_period)
    IN  [delay_ns |-> delay_ns,
         task_ns |-> diff_nanosec(end, start),
         period_exceeded |-> delay_ns > pi.period_ns,
         print_info |-> pi.print_rate # 0 /\ CMod(q, pi.print_rate) = 0]

\* the RED line without its "\n"
report_nonl(meas) ==
    IF meas.period_exceeded
    THEN << [erase |-> TRUE, red |-> TRUE, delay_ns |-> meas.delay_ns,
             task_ns |-> meas.task_ns, newline |-> FALSE] >>
    ELSE IF meas.print_info
         THEN << [erase |-> TRUE, red |-> FALSE, delay_ns |-> meas.delay_ns,
                  task_ns |-> meas.task_ns, newline |-> FALSE] >>
         ELSE << >>

\* what do_rt_task writes to stdout for a measurement: each write starts with
\* "\33[2K\r" (erase the line, carriage return); only the RED one ends in "\n"
report(meas) ==
    IF meas.period_exceeded
    THEN << [erase |-> TRUE, red |-> TRUE, delay_ns |-> meas.delay_ns,
             task_ns |-> meas.task_ns, newline |-> TRUE] >>
    ELSE IF meas.print_info
         THEN << [erase |-> TRUE, red |-> FALSE, delay_ns |-> meas.delay_ns,
                  task_ns |-> meas.task_ns, newline |-> FALSE] >>
         ELSE << >>

\* the console after the writes of s: the finished lines and the line the
\* cursor is on (a sequence of the texts written on it)
RECURSIVE Render(_)
Render(s) ==
    IF s = << >>
    THEN [lines |-> << >>, cur |-> << >>]
    ELSE LET r == Render(SubSeq(s, 1, Len(s) - 1))
             w == s[Len(s)]
             text == [red |-> w.red, delay_ns |-> w.delay_ns, task_ns |-> w.task_ns]
             line == (IF w.erase THEN << >> ELSE r.cur) \o << text >>
         IN  IF w.newline
             THEN [lines |-> Append(r.lines, line), cur |-> << >>]
             ELSE [lines |-> r.lines, cur |-> line]

(* --------------------------------- state ------------------------------- *)
VARIABLES
    mainPc,      \* where the controlling thread is in main
    optleft,     \* options of argv that getopt has not handed out yet
    data,        \* struct task_data: period_ns, print_per_sec
    calls,       \* the library calls of the startup made so far, with results
    mlocked,     \* process memory is locked
    ret,         \* main's ret
    exitStatus,  \* the exit status, once mainPc = "exited"
    usage,       \* the usage message was written to stderr
    workerPc,    \* where the worker thread is in simple_cyclic_task
    pinfo,       \* struct period_info of the worker
    now,         \* CLOCK_MONOTONIC, in ticks
    meas,        \* the locals of the last do_rt_task
    out,         \* the writes to stdout made by do_rt_task
    cycles,      \* number of wait_rest_of_period calls made
    hist         \* history: values the claims refer to, never read by the program

vars == << mainPc, optleft, data, calls, mlocked, ret, exitStatus, usage,
           workerPc, pinfo, now, meas, out, cycles, hist >>

mainVars == << mainPc, optleft, data, calls, mlocked, ret, exitStatus, usage >>
workerVars == << workerPc, pinfo, now, meas, out, cycles, hist >>

NoTime == [tv_sec |-> 0, tv_nsec |-> 0]

Init ==
    /\ mainPc = "getopt"
    /\ optleft \in 0..MaxOpts
    /\ data = [period_ns |-> DefaultPeriodNs \div TickNs,
               print_per_sec |-> DefaultPrintPerSec]
    /\ calls = << >>
    /\ mlocked = FALSE
    /\ ret = 0
    /\ exitStatus = 0
    /\ usage = FALSE
    /\ workerPc = "none"
    /\ pinfo = [period_ns |-> 0, print_rate |-> 0, next_period |-> NoTime]
    /\ now \in StartTimes
    /\ meas = [delay_ns |-> 0, task_ns |-> 0, period_exceeded |-> FALSE,
               print_info |-> FALSE]
    /\ out = << >>
    /\ cycles = 0
    /\ hist = [initial |-> NoTime, start |-> 0, exceeded |-> 0, outLen |-> 0,
               lastInfo |-> 0 - 1, prevInfo |-> 0 - 1,
               \* the configuration pthread_create handed to the worker
               created |-> data,
               \* do_rt_task and clock_nanosleep calls made
               tasks |-> 0, sleeps |-> 0,
               \* the measurement of the cycle before the last one
               prev |-> meas,
               \* the deadline before the last inc_period; when the last
               \* clock_nanosleep returned and how long after its deadline
               prevDeadline |-> 0, wake |-> 0, late |-> 0,
               \* the last clock_nanosleep returned before its deadline; how
               \* many did so far
               lastEarly |-> FALSE, earlyCount |-> 0]

(* ------------------------- the controlling thread ---------------------- *)
\* case 'p'
GetoptPeriod ==
    /\ mainPc = "getopt"
    /\ optleft > 0
    /\ \E ms \in PeriodArgs : data' = [data EXCEPT !.period_ns = MsToNs(ms)]
    /\ optleft' = optleft - 1
    /\ UNCHANGED << mainPc, calls, mlocked, ret, exitStatus, usage >>
    /\ UNCHANGED workerVars

\* case 'r'
GetoptRate ==
    /\ mainPc = "getopt"
    /\ optleft > 0
    /\ \E hz \in RateArgs : data' = [data EXCEPT !.print_per_sec = hz]
    /\ optleft' = optleft - 1
    /\ UNCHANGED << mainPc, calls, mlocked, ret, exitStatus, usage >>
    /\ UNCHANGED workerVars

\* the usage message without the exit: the loop goes on
GetoptUnknown_continue ==
    /\ mainPc = "getopt"
    /\ optleft > 0
    /\ usage' = TRUE
    /\ optleft' = optleft - 1
    /\ UNCHANGED << mainPc, data, calls, mlocked, ret, exitStatus >>
    /\ UNCHANGED workerVars

\* default: an unrecognized flag (getopt returns '?')
GetoptUnknown ==
    /\ mainPc = "getopt"
    /\ optleft > 0
    /\ usage' = TRUE
    /\ mainPc' = "exited"
    /\ exitStatus' = ExitStatus(EXIT_FAILURE)
    /\ optleft' = optleft - 1
    /\ UNCHANGED << data, calls, mlocked, ret >>
    /\ UNCHANGED workerVars

\* getopt returns -1: the loop ends
GetoptEnd ==
    /\ mainPc = "getopt"
    /\ optleft = 0
    /\ mainPc' = "mlockall"
    /\ UNCHANGED << optleft, data, calls, mlocked, ret, exitStatus, usage >>
    /\ UNCHANGED workerVars

\* a failure of mlockall reported but not fatal
Mlockall_warn ==
    /\ mainPc = "mlockall"
    /\ \E r \in {0, 0 - 1} :
        /\ calls' = Append(calls, [fn |-> "mlockall", ret |-> r])
        /\ mlocked' = (r = 0)
    /\ mainPc' = "attr_init"
    /\ UNCHANGED << optleft, data, ret, usage, exitStatus >>
    /\ UNCHANGED workerVars

Mlockall ==
    /\ mainPc = "mlockall"
    /\ \E r \in {0, 0 - 1} :
        /\ calls' = Append(calls, [fn |-> "mlockall", ret |-> r])
        /\ IF r = 0 - 1
           THEN /\ mainPc' = "exited"
                /\ exitStatus' = ExitStatus(MlockExitCode)
                /\ mlocked' = mlocked
           ELSE /\ mainPc' = "attr_init"
                /\ mlocked' = TRUE
                /\ exitStatus' = exitStatus
    /\ UNCHANGED << optleft, data, ret, usage >>
    /\ UNCHANGED workerVars

\* out: return 0
ReturnRet_zero(r) == ExitStatus(0)

\* out: return ret
ReturnRet(r) == ExitStatus(r)

\* the result is stored but not tested: the next step runs all the same
SetupCall_unchecked(pc, fn, next) ==
    /\ mainPc = pc
    /\ \E r \in {0} \cup ErrCodes :
        /\ calls' = Append(calls, [fn |-> fn, ret |-> r])
        /\ ret' = r
    /\ mainPc' = next
    /\ UNCHANGED << optleft, data, mlocked, usage, exitStatus >>

\* ret = fn(...); if (ret) { printf(...); goto out; }
SetupCall(pc, fn, next) ==
    /\ mainPc = pc
    /\ \E r \in {0} \cup ErrCodes :
        /\ calls' = Append(calls, [fn |-> fn, ret |-> r])
        /\ ret' = r
        /\ IF r # 0
           THEN /\ mainPc' = "exited"
                /\ exitStatus' = ReturnRet(r)
           ELSE /\ mainPc' = next
                /\ exitStatus' = exitStatus
    /\ UNCHANGED << optleft, data, mlocked, usage >>

PthreadAttrInit ==
    /\ SetupCall("attr_init", "pthread_attr_init", "setstacksize")
    /\ UNCHANGED workerVars

PthreadAttrSetstacksize ==
    /\ SetupCall("setstacksize", "pthread_attr_setstacksize", "setschedpolicy")
    /\ UNCHANGED workerVars

PthreadAttrSetschedpolicy ==
    /\ SetupCall("setschedpolicy", "pthread_attr_setschedpolicy", "setschedparam")
    /\ UNCHANGED workerVars

PthreadAttrSetschedparam ==
    /\ SetupCall("setschedparam", "pthread_attr_setschedparam", "setinheritsched")
    /\ UNCHANGED workerVars

PthreadAttrSetinheritsched ==
    /\ SetupCall("setinheritsched", "pthread_attr_setinheritsched", "create")
    /\ UNCHANGED workerVars

\* on success the worker exists and starts in simple_cyclic_task
PthreadCreate ==
    /\ SetupCall("create", "pthread_create", "join")
    /\ workerPc' = IF ret' = 0 THEN "start" ELSE workerPc
    /\ hist' = [hist EXCEPT !.created = data]
    /\ UNCHANGED << pinfo, now, meas, out, cycles >>

\* pthread_join returns an error at once
PthreadJoinFail ==
    /\ mainPc = "join"
    /\ \E r \in JoinErrCodes :
        /\ calls' = Append(calls, [fn |-> "pthread_join", ret |-> r])
        /\ ret' = r
        /\ exitStatus' = ReturnRet(r)
    /\ mainPc' = "exited"
    /\ UNCHANGED << optleft, data, mlocked, usage >>
    /\ UNCHANGED workerVars

\* pthread_join blocks until the worker returns; simple_cyclic_task has no
\* reachable return, so the controlling thread stays here
PthreadJoinBlock ==
    /\ mainPc = "join"
    /\ mainPc' = "joining"
    /\ UNCHANGED << optleft, data, calls, mlocked, ret, exitStatus, usage >>
    /\ UNCHANGED workerVars

(* -------------------------------- the worker --------------------------- *)
\* the worker runs while the process does
Alive == mainPc \in {"join", "joining"}

\* simple_cyclic_task up to the loop: periodic_task_init
SimpleCyclicTask ==
    /\ Alive
    /\ workerPc = "start"
    /\ \E q \in (IF data.print_per_sec = 0 THEN {0}
                 ELSE Quotients(OneSecond, data.period_ns * data.print_per_sec)) :
        pinfo' = periodic_task_init(data.period_ns, data.print_per_sec, q, now)
    /\ hist' = [hist EXCEPT !.initial = pinfo'.next_period]
    /\ workerPc' = "task"
    /\ UNCHANGED << now, meas, out, cycles >>
    /\ UNCHANGED mainVars

\* the division by zero of periodic_task_init traps: SIGFPE ends the process
PeriodicTaskInitSIGFPE ==
    /\ Alive
    /\ workerPc = "start"
    /\ data.print_per_sec # 0
    /\ data.period_ns * data.print_per_sec = 0
    /\ workerPc' = "killed"
    /\ mainPc' = "killed"
    /\ UNCHANGED << optleft, data, calls, mlocked, ret, exitStatus, usage >>
    /\ UNCHANGED << pinfo, now, meas, out, cycles, hist >>

\* how long the body of a cycle may take, and how late a wake-up may be
BodyTimes == {0, 5 * Abs(pinfo.period_ns)}
Lateness == {0, Abs(pinfo.period_ns), Abs(pinfo.period_ns) + 1}

DoRtTask ==
    /\ Alive
    /\ workerPc = "task"
    /\ \E body \in BodyTimes :
       \E q \in (IF pinfo.print_rate = 0 THEN {0}
                 ELSE Quotients(pinfo.next_period.tv_nsec, pinfo.period_ns)) :
        /\ meas' = do_rt_task(pinfo, now, now + body, q)
        /\ now' = now + body
    /\ out' = out \o report(meas')
    /\ hist' = [hist EXCEPT
                  !.start = now,
                  !.tasks = @ + 1,
                  !.prev = meas,
                  !.outLen = Len(out),
                  !.exceeded = @ + (IF now - TotalNs(pinfo.next_period) > pinfo.period_ns
                                    THEN 1 ELSE 0),
                  !.prevInfo = IF meas'.print_info THEN hist.lastInfo ELSE @,
                  !.lastInfo = IF meas'.print_info THEN cycles ELSE @]
    /\ workerPc' = "wait"
    /\ UNCHANGED << pinfo, cycles >>
    /\ UNCHANGED mainVars

\* a sleep relative to the time of the call: the deadline is re-anchored
WaitRestOfPeriod_relative ==
    /\ Alive
    /\ workerPc = "wait"
    /\ cycles < MaxCycles
    /\ pinfo' = [pinfo EXCEPT !.next_period = clock_gettime(now + pinfo.period_ns)]
    /\ \E late \in Lateness :
        /\ now' = Max(now, TotalNs(pinfo'.next_period)) + late
        /\ hist' = [hist EXCEPT !.prevDeadline = TotalNs(pinfo.next_period),
                                !.sleeps = @ + 1,
                                !.wake = now',
                                !.late = late,
                                !.lastEarly = FALSE]
    /\ cycles' = cycles + 1
    /\ workerPc' = "task"
    /\ UNCHANGED << meas, out >>
    /\ UNCHANGED mainVars

\* the deadlines already missed are skipped
WaitRestOfPeriod_catchup ==
    /\ Alive
    /\ workerPc = "wait"
    /\ cycles < MaxCycles
    /\ LET next == TotalNs(inc_period(pinfo).next_period)
           missed == IF pinfo.period_ns > 0 /\ next < now
                     THEN (now - next + pinfo.period_ns - 1) \div pinfo.period_ns
                     ELSE 0
       IN  pinfo' = [pinfo EXCEPT
                       !.next_period = clock_gettime(next + missed * pinfo.period_ns)]
    /\ \E late \in Lateness :
        /\ now' = Max(now, TotalNs(pinfo'.next_period)) + late
        /\ hist' = [hist EXCEPT !.prevDeadline = TotalNs(pinfo.next_period),
                                !.sleeps = @ + 1,
                                !.wake = now',
                                !.late = late,
                                !.lastEarly = FALSE]
    /\ cycles' = cycles + 1
    /\ workerPc' = "task"
    /\ UNCHANGED << meas, out >>
    /\ UNCHANGED mainVars

\* inc_period, then clock_nanosleep returns at or after the deadline
WaitRestOfPeriod ==
    /\ Alive
    /\ workerPc = "wait"
    /\ cycles < MaxCycles
    /\ pinfo' = inc_period(pinfo)
    /\ \E late \in Lateness :
        /\ now' = Max(now, TotalNs(pinfo'.next_period)) + late
        /\ hist' = [hist EXCEPT !.prevDeadline = TotalNs(pinfo.next_period),
                                !.sleeps = @ + 1,
                                !.wake = now',
                                !.late = late,
                                !.lastEarly = FALSE]
    /\ cycles' = cycles + 1
    /\ workerPc' = "task"
    /\ UNCHANGED << meas, out >>
    /\ UNCHANGED mainVars

\* after EINTR the wait is issued again until the deadline is reached
WaitRestOfPeriodInterrupted_rewait ==
    /\ Alive
    /\ workerPc = "wait"
    /\ cycles < MaxCycles
    /\ pinfo' = inc_period(pinfo)
    /\ now < TotalNs(pinfo'.next_period)
    /\ now' = TotalNs(pinfo'.next_period)
    /\ hist' = [hist EXCEPT !.prevDeadline = TotalNs(pinfo.next_period),
                            !.sleeps = @ + 2,
                            !.wake = now',
                            !.late = 0,
                            !.lastEarly = TRUE,
                            !.earlyCount = @ + 1]
    /\ cycles' = cycles + 1
    /\ workerPc' = "task"
    /\ UNCHANGED << meas, out >>
    /\ UNCHANGED mainVars

\* inc_period, then a signal ends clock_nanosleep before the deadline (EINTR)
WaitRestOfPeriodInterrupted ==
    /\ Alive
    /\ workerPc = "wait"
    /\ cycles < MaxCycles
    /\ pinfo' = inc_period(pinfo)
    /\ now < TotalNs(pinfo'.next_period)
    /\ now' = now
    /\ hist' = [hist EXCEPT !.prevDeadline = TotalNs(pinfo.next_period),
                            !.sleeps = @ + 1,
                            !.wake = now',
                            !.late = 0,
                            !.lastEarly = TRUE,
                            !.earlyCount = @ + 1]
    /\ cycles' = cycles + 1
    /\ workerPc' = "task"
    /\ UNCHANGED << meas, out >>
    /\ UNCHANGED mainVars

Next ==
    \/ GetoptPeriod
    \/ GetoptRate
    \/ GetoptUnknown
    \/ GetoptEnd
    \/ Mlockall
    \/ PthreadAttrInit
    \/ PthreadAttrSetstacksize
    \/ PthreadAttrSetschedpolicy
    \/ PthreadAttrSetschedparam
    \/ PthreadAttrSetinheritsched
    \/ PthreadCreate
    \/ PthreadJoinFail
    \/ PthreadJoinBlock
    \/ SimpleCyclicTask
    \/ PeriodicTaskInitSIGFPE
    \/ DoRtTask
    \/ WaitRestOfPeriod
    \/ WaitRestOfPeriodInterrupted

Spec == Init /\ [][Next]_vars

\* the program with a pthread_join that does not fail: the worker is joinable
\* and is joined once, by another thread, so no error of pthread_join applies
NextJoinBlocks ==
    \/ GetoptPeriod
    \/ GetoptRate
    \/ GetoptUnknown
    \/ GetoptEnd
    \/ Mlockall
    \/ PthreadAttrInit
    \/ PthreadAttrSetstacksize
    \/ PthreadAttrSetschedpolicy
    \/ PthreadAttrSetschedparam
    \/ PthreadAttrSetinheritsched
    \/ PthreadCreate
    \/ PthreadJoinBlock
    \/ SimpleCyclicTask
    \/ PeriodicTaskInitSIGFPE
    \/ DoRtTask
    \/ WaitRestOfPeriod
    \/ WaitRestOfPeriodInterrupted

SpecJoinBlocks == Init /\ [][NextJoinBlocks]_vars

(* ------------------------ diff_nanosec on its own ---------------------- *)
\* instants around the boundaries of a second, in ticks
DiffTimes ==
    {0, 1, OneSecond - 1, OneSecond, OneSecond + 1, 2 * OneSecond - 1,
     2 * OneSecond + 500, 5 * OneSecond, 5 * OneSecond + 1}

\* time0 is hist.start, held as a timespec in pinfo.next_period; time1 is now
InitDiff ==
    /\ mainPc = "getopt"
    /\ optleft = 0
    /\ data = [period_ns |-> DefaultPeriodNs \div TickNs,
               print_per_sec |-> DefaultPrintPerSec]
    /\ calls = << >>
    /\ mlocked = FALSE
    /\ ret = 0
    /\ exitStatus = 0
    /\ usage = FALSE
    /\ workerPc = "none"
    /\ now \in DiffTimes
    /\ \E t0 \in DiffTimes :
        /\ pinfo = [period_ns |-> 0, print_rate |-> 0, next_period |-> clock_gettime(t0)]
        /\ hist = [initial |-> NoTime, start |-> t0, exceeded |-> 0, outLen |-> 0,
                   lastInfo |-> 0 - 1, prevInfo |-> 0 - 1, created |-> data,
                   tasks |-> 0, sleeps |-> 0,
                   prev |-> [delay_ns |-> 0, task_ns |-> 0,
                             period_exceeded |-> FALSE, print_info |-> FALSE],
                   prevDeadline |-> 0, wake |-> 0, late |-> 0,
                   lastEarly |-> FALSE, earlyCount |-> 0]
    /\ meas = [delay_ns |-> 0, task_ns |-> 0, period_exceeded |-> FALSE,
               print_info |-> FALSE]
    /\ out = << >>
    /\ cycles = 0

\* diff_nanosec(time1, time0) into delay_ns, diff_nanosec(time0, time1) into task_ns
DiffNanosec ==
    /\ workerPc = "none"
    /\ workerPc' = "diffed"
    /\ meas' = [meas EXCEPT
                  !.delay_ns = diff_nanosec(clock_gettime(now), pinfo.next_period),
                  !.task_ns = diff_nanosec(pinfo.next_period, clock_gettime(now))]
    /\ UNCHANGED << pinfo, now, out, cycles, hist >>
    /\ UNCHANGED mainVars

SpecDiff == InitDiff /\ [][DiffNanosec]_vars


(* --------------------------------- claims ------------------------------ *)
\* the worker has run periodic_task_init and is in its loop
InLoop == workerPc \in {"task", "wait"}

\* the delay of the cycle measured last: its start minus the deadline it ran for
Delay == hist.start - TotalNs(pinfo.next_period)

\* C1: drift-freedom: with period_ns > 0, after k calls of wait_rest_of_period
\* the deadline is the deadline of periodic_task_init plus k * period_ns,
\* whatever the bodies took and whenever the worker woke up
DriftFree ==
    (InLoop /\ pinfo.period_ns > 0) =>
        TotalNs(pinfo.next_period) = TotalNs(hist.initial) + cycles * pinfo.period_ns

\* three deadlines on, a second was carried and a deadline was missed on the way
DriftFreeWitness ==
    /\ InLoop
    /\ pinfo.period_ns > 0
    /\ cycles >= 3
    /\ hist.exceeded >= 1
    /\ pinfo.next_period.tv_sec > hist.initial.tv_sec
    /\ pinfo.next_period.tv_nsec < hist.initial.tv_nsec

\* C2: with period_ns > 0, also of several seconds, tv_nsec of the deadline is
\* in [0, 1000000000) after every inc_period
NsecInRange ==
    (InLoop /\ pinfo.period_ns > 0) =>
        (0 <= pinfo.next_period.tv_nsec /\ pinfo.next_period.tv_nsec < OneSecond)

\* one inc_period with a period of more than two seconds carried three seconds
NsecInRangeWitness ==
    /\ InLoop
    /\ cycles = 1
    /\ pinfo.period_ns > 2 * OneSecond
    /\ pinfo.next_period.tv_sec = hist.initial.tv_sec + 3

\* C3: after every do_rt_task, period_exceeded is true exactly when the delay
\* of the cycle is strictly greater than period_ns
ExceededIffLate ==
    workerPc = "wait" =>
        /\ meas.delay_ns = Delay
        /\ meas.period_exceeded <=> (Delay > pinfo.period_ns)

\* a cycle that started exactly one period late is not exceeded
ExceededIffLateWitness ==
    /\ workerPc = "wait"
    /\ pinfo.period_ns > 0
    /\ Delay = pinfo.period_ns
    /\ ~meas.period_exceeded

\* C4: periodic_task_init sets print_rate to 0 when period_ns * print_per_sec
\* is not greater than 0, and to 1000000000 / (period_ns * print_per_sec) otherwise
PrintRateAsSpecified ==
    workerPc \notin {"none", "start"} =>
        /\ InLoop
        /\ pinfo.print_rate =
              IF data.period_ns * data.print_per_sec > 0
              THEN OneSecond \div (data.period_ns * data.print_per_sec)
              ELSE 0

\* C5: with a period and a rate that give print_rate > 0, print_info is true
\* in exactly one cycle out of every print_rate consecutive cycles: two
\* consecutive cycles whose print_info is true are print_rate cycles apart, and
\* no more than print_rate - 1 cycles without it follow one
ReportEveryPrintRate ==
    (InLoop /\ pinfo.period_ns > 0 /\ pinfo.print_rate > 0) =>
        /\ hist.prevInfo >= 0 => hist.lastInfo - hist.prevInfo = pinfo.print_rate
        /\ (workerPc = "wait" /\ hist.lastInfo >= 0) =>
              cycles - hist.lastInfo < pinfo.print_rate


\* the writes of the cycle measured last
NewWrites == SubSeq(out, hist.outLen + 1, Len(out))

\* the finished lines of the console that hold one RED text and nothing else
RedLines == SelectSeq(Render(out).lines, LAMBDA l : Len(l) = 1 /\ l[1].red)

\* C6: started with print_per_sec = 0 the worker never writes a routine line,
\* and every cycle whose delay exceeds period_ns still writes its RED line
OnlyExceededWhenRateZero ==
    (InLoop /\ data.print_per_sec = 0) =>
        /\ \A i \in 1..Len(out) : out[i].red /\ out[i].newline
        /\ Len(out) = hist.exceeded
        /\ Render(out).cur = << >>
        /\ (workerPc = "wait" /\ Delay > pinfo.period_ns) => Len(NewWrites) = 1

\* with rate 0, three cycles ran, of which one only was exceeded and reported
OnlyExceededWhenRateZeroWitness ==
    /\ workerPc = "wait"
    /\ data.print_per_sec = 0
    /\ pinfo.period_ns > 0
    /\ cycles >= 2
    /\ hist.exceeded = 1
    /\ Len(out) = 1

\* C7: a cycle writes at most one report: a RED line ended by a newline when
\* it is exceeded (also when print_info holds), else a line that replaces the
\* current console line and is not ended when print_info holds, else nothing;
\* and the console holds one finished RED line per exceeded cycle so far
OneReportPerCycle ==
    /\ InLoop => Len(RedLines) = hist.exceeded
    /\ workerPc = "wait" =>
        /\ Len(NewWrites) <= 1
        /\ (Delay > pinfo.period_ns) =>
              /\ Len(NewWrites) = 1
              /\ NewWrites[1].red /\ NewWrites[1].newline
              /\ Render(out).cur = << >>
        /\ (~(Delay > pinfo.period_ns) /\ meas.print_info) =>
              /\ Len(NewWrites) = 1
              /\ ~NewWrites[1].red /\ ~NewWrites[1].newline
              /\ Render(out).cur = << [red |-> FALSE, delay_ns |-> meas.delay_ns,
                                       task_ns |-> meas.task_ns] >>
              /\ Render(out).lines = Render(SubSeq(out, 1, hist.outLen)).lines
        /\ (~(Delay > pinfo.period_ns) /\ ~meas.print_info) => NewWrites = << >>

\* a routine line, then the RED line of an exceeded cycle, then a routine line
\* again: the RED line is still on the console
OneReportPerCycleWitness ==
    /\ workerPc = "wait"
    /\ Len(out) >= 3
    /\ ~out[1].red
    /\ out[2].red
    /\ ~out[Len(out)].red
    /\ hist.exceeded >= 1
    /\ \E i \in 1..Len(out) : out[i].red /\ out[i].delay_ns > pinfo.period_ns

StartupOrder ==
    << "mlockall", "pthread_attr_init", "pthread_attr_setstacksize",
       "pthread_attr_setschedpolicy", "pthread_attr_setschedparam",
       "pthread_attr_setinheritsched", "pthread_create", "pthread_join" >>

\* C8: the startup calls are made in the fixed order; after a call that failed
\* no other call is made; and the worker exists only when memory lock, attribute
\* init, stack size, policy, priority, inheritance and creation all succeeded
StartupInOrder ==
    /\ Len(calls) <= Len(StartupOrder)
    /\ \A i \in 1..Len(calls) : calls[i].fn = StartupOrder[i]
    /\ \A i \in 1..(Len(calls) - 1) : calls[i].ret = 0
    /\ workerPc # "none" =>
        /\ Len(calls) >= 7
        /\ \A i \in 1..7 : calls[i].ret = 0
    /\ (calls # << >> /\ calls[Len(calls)].ret # 0) => mainPc = "exited"

\* setting the scheduling policy failed: the process ended without a worker
StartupInOrderWitness ==
    /\ Len(calls) = 4
    /\ calls[4].ret # 0
    /\ mainPc = "exited"
    /\ workerPc = "none"

\* C9: the exit status is 0 only after a join that succeeded; it is a non-zero
\* status of its own when mlockall fails, and no pthread call was made then;
\* it is the error code of the failing call when the thread setup fails; it
\* is non-zero when the join fails
ExitCodes ==
    (mainPc = "exited" /\ ~usage) =>
        LET last == calls[Len(calls)]
        IN  /\ calls # << >>
            /\ exitStatus = 0 => (last.fn = "pthread_join" /\ last.ret = 0)
            /\ (last.fn = "mlockall" /\ last.ret # 0) =>
                  /\ exitStatus # 0
                  /\ exitStatus \notin (ErrCodes \cup JoinErrCodes)
                  /\ Len(calls) = 1
                  /\ workerPc = "none"
            /\ (Len(calls) \in 2..7 /\ last.ret # 0) => exitStatus = last.ret
            /\ (last.fn = "pthread_join" /\ last.ret # 0) => exitStatus # 0

\* pthread_create failed with EAGAIN and the process ended with status 11
ExitCodesWitness ==
    /\ mainPc = "exited"
    /\ Len(calls) = 7
    /\ calls[7] = [fn |-> "pthread_create", ret |-> 11]
    /\ exitStatus = 11

\* C10: after an unrecognized flag the usage message is written and the process
\* has ended with a failure status, with memory not locked and no worker
\* created, whatever valid flags came before it
UnknownFlagExits ==
    usage =>
        /\ mainPc = "exited"
        /\ exitStatus # 0
        /\ ~mlocked
        /\ calls = << >>
        /\ workerPc = "none"

\* -p and then an unrecognized flag
UnknownFlagExitsWitness ==
    /\ usage
    /\ mainPc = "exited"
    /\ data.period_ns # DefaultPeriodNs \div TickNs
    /\ optleft = 0


\* C11: when a cycle started on its deadline and its body took 5 periods, the
\* next cycle measures a delay of 4 periods plus the latency of its wake-up and
\* is reported exceeded, and the deadline has advanced by one period, no more
OverrunSeenByNextCycle ==
    (/\ workerPc = "wait"
     /\ cycles >= 1
     /\ pinfo.period_ns > 0
     /\ hist.prev.delay_ns = 0
     /\ hist.prev.task_ns = 5 * pinfo.period_ns) =>
        /\ meas.delay_ns = 4 * pinfo.period_ns + hist.late
        /\ meas.period_exceeded
        /\ Len(NewWrites) = 1 /\ NewWrites[1].red
        /\ NewWrites[1].delay_ns = meas.delay_ns
        /\ TotalNs(pinfo.next_period) = hist.prevDeadline + pinfo.period_ns

\* two cycles on time, the second with a body of 5 periods, and a third that
\* woke without latency and measured 4 periods
OverrunSeenByNextCycleWitness ==
    /\ workerPc = "wait"
    /\ cycles = 2
    /\ pinfo.period_ns > 0
    /\ hist.exceeded = 1
    /\ hist.prev.delay_ns = 0
    /\ hist.prev.task_ns = 5 * pinfo.period_ns
    /\ meas.delay_ns = 4 * pinfo.period_ns
    /\ meas.period_exceeded

\* C12: one do_rt_task per deadline, in order: the n-th measures against the
\* initial deadline plus (n-1) periods, starts when the wait before it has
\* returned, which is after the do_rt_task before it ended; after an overrun the
\* cycles that follow measure against the deadlines that were missed
CyclesInSequence ==
    InLoop =>
        /\ hist.tasks = cycles + (IF workerPc = "wait" THEN 1 ELSE 0)
        /\ hist.sleeps = cycles
        /\ workerPc = "wait" =>
            /\ meas.delay_ns =
                 hist.start - (TotalNs(hist.initial) + cycles * pinfo.period_ns)
            /\ cycles >= 1 =>
                 /\ hist.start >= hist.wake
                 /\ TotalNs(pinfo.next_period) = hist.prevDeadline + pinfo.period_ns
        /\ (workerPc = "task" /\ cycles >= 1) =>
             hist.wake >= hist.start + meas.task_ns

\* after a body of 5 periods, two cycles in a row ran late against the
\* deadlines that followed: 4 periods late, then 3
CyclesInSequenceWitness ==
    /\ workerPc = "wait"
    /\ cycles >= 3
    /\ pinfo.period_ns > 0
    /\ hist.prev.delay_ns = 4 * pinfo.period_ns
    /\ meas.delay_ns = 3 * pinfo.period_ns
    /\ hist.exceeded = 2

\* C13: a clock_nanosleep that returns before its deadline is not issued again:
\* the next cycle starts at once, measures a negative delay and is not
\* exceeded; and every wait has advanced the deadline by one period
EarlyWakeNotCorrected ==
    /\ (InLoop /\ cycles >= 1) =>
          /\ hist.sleeps = cycles
          /\ TotalNs(pinfo.next_period) = hist.prevDeadline + pinfo.period_ns
    /\ (workerPc = "wait" /\ hist.lastEarly) =>
          /\ hist.start = hist.wake
          /\ hist.start < TotalNs(pinfo.next_period)
          /\ meas.delay_ns < 0
          /\ ~meas.period_exceeded

\* a cycle that started early and measured a negative delay, and the wait
\* after it, which ran to its deadline
EarlyWakeNotCorrectedWitness ==
    /\ workerPc = "task"
    /\ cycles >= 2
    /\ hist.earlyCount = 1
    /\ ~hist.lastEarly
    /\ meas.delay_ns < 0
    /\ now = TotalNs(pinfo.next_period)

\* C14: once the worker exists it does not end and the process does not exit:
\* the controlling thread is at or in pthread_join and the worker in its loop
WorkerNeverEnds ==
    workerPc # "none" =>
        /\ workerPc \in {"start", "task", "wait"}
        /\ mainPc \in {"join", "joining"}

\* C15: while the worker exists the memory is locked: mlockall is the first
\* call of the startup, made once, and its lock is never given up
LockedForWorkerLifetime ==
    /\ workerPc # "none" => mlocked
    /\ mlocked <=> (calls # << >> /\ calls[1] = [fn |-> "mlockall", ret |-> 0])
    /\ \A i \in 2..Len(calls) : calls[i].fn # "mlockall"

\* the worker in its third cycle, the memory locked
LockedForWorkerLifetimeWitness ==
    /\ workerPc = "wait"
    /\ cycles >= 2
    /\ mlocked
    /\ Len(calls) = 7

\* C16: the configuration is not written once the worker is created, and the
\* period_ns of every cycle is the one the worker was created with
ConfigReadOnly ==
    /\ workerPc # "none" => data = hist.created
    /\ InLoop => pinfo.period_ns = hist.created.period_ns

\* the worker in its third cycle with a period given by -p
ConfigReadOnlyWitness ==
    /\ workerPc = "wait"
    /\ cycles >= 2
    /\ hist.created.period_ns = MsToNs(300)
    /\ pinfo.period_ns = MsToNs(300)

\* C17: for two timestamps with tv_nsec in [0, 1000000000), diff_nanosec(t1, t0)
\* is the instant of t1 minus the instant of t0: negative exactly when t1 is
\* the earlier, zero exactly when they are equal, and the opposite of
\* diff_nanosec(t0, t1)
DiffNanosecExact ==
    workerPc = "diffed" =>
        /\ meas.delay_ns = now - hist.start
        /\ meas.delay_ns < 0 <=> now < hist.start
        /\ meas.delay_ns = 0 <=> clock_gettime(now) = pinfo.next_period
        /\ meas.delay_ns = 0 - meas.task_ns

\* t1 the earlier, by more than a second, with the larger tv_nsec
DiffNanosecExactWitness ==
    /\ workerPc = "diffed"
    /\ meas.delay_ns < 0 - OneSecond
    /\ clock_gettime(now).tv_nsec > pinfo.next_period.tv_nsec

\* C18: as long as no clock_nanosleep has returned before its deadline,
\* delay_ns and task_ns are not negative, in the first cycle as in the others
NoEarlyWakeNoNegativeDelay ==
    (workerPc = "wait" /\ hist.earlyCount = 0) =>
        /\ meas.delay_ns >= 0
        /\ meas.task_ns >= 0

\* the first cycle, on its deadline, with a body that took time
NoEarlyWakeNoNegativeDelayWitness ==
    /\ workerPc = "wait"
    /\ cycles = 0
    /\ pinfo.period_ns > 0
    /\ meas.delay_ns = 0
    /\ meas.task_ns > 0

\* the number of whole periods in a second
PeriodsPerSecond == OneSecond \div pinfo.period_ns

\* C19: with print_rate != 0 and period_ns > 0, no more than
\* max(print_rate, periods per second) cycles pass from a cycle whose
\* print_info is true to the next one
ReportNotStarved ==
    (InLoop /\ pinfo.period_ns > 0 /\ pinfo.print_rate # 0) =>
        /\ hist.prevInfo >= 0 =>
             hist.lastInfo - hist.prevInfo <= Max(pinfo.print_rate, PeriodsPerSecond)
        /\ hist.lastInfo >= 0 =>
             cycles - hist.lastInfo <= Max(pinfo.print_rate, PeriodsPerSecond)

\* two reports as far apart as the bound allows, with the second wrap between
ReportNotStarvedWitness ==
    /\ workerPc = "wait"
    /\ pinfo.period_ns > 0
    /\ pinfo.print_rate # 0
    /\ hist.prevInfo >= 0
    /\ hist.lastInfo - hist.prevInfo = Max(pinfo.print_rate, PeriodsPerSecond)
    /\ pinfo.next_period.tv_sec > hist.initial.tv_sec
    /\ hist.exceeded = 0

====
